---- MODULE Spec2Model ----
(***************************************************************************)
(* A model of utils/screenshot_capture.py, the WaveSim screenshot capture  *)
(* utility: the dispatcher main(), take_screenshot(), the guided sequence  *)
(* and the README markdown listing.                                         *)
(*                                                                         *)
(* Text is modelled as sequences of one-character strings so that the      *)
(* string operations of the script (lower, endswith, replace, title,       *)
(* slicing, sorting by code point) are computed, not assumed.  Python's    *)
(* None is modelled by the empty value of the type at hand: both are       *)
(* falsy, and the script only ever tests these values for truth.           *)
(***************************************************************************)
EXTENDS Integers, Sequences, FiniteSets, TLC

(***************************************************************************)
(* Bounds of the model.                                                    *)
(***************************************************************************)
\* how many of ClockSamples the wall clock may show when the program starts
NumClocks == 2
\* how many files the output directory may hold when the program starts
MaxFiles == 3

(***************************************************************************)
(* Characters and strings.                                                 *)
(***************************************************************************)
Lowers == <<"a","b","c","d","e","f","g","h","i","j","k","l","m",
            "n","o","p","q","r","s","t","u","v","w","x","y","z">>
Uppers == <<"A","B","C","D","E","F","G","H","I","J","K","L","M",
            "N","O","P","Q","R","S","T","U","V","W","X","Y","Z">>
Digits == <<"0","1","2","3","4","5","6","7","8","9">>

Range(s) == {s[k] : k \in 1..Len(s)}
IndexOf(s, c) == CHOOSE k \in 1..Len(s) : s[k] = c

IsLower(c) == c \in Range(Lowers)
IsUpper(c) == c \in Range(Uppers)
IsAlpha(c) == IsLower(c) \/ IsUpper(c)

\* str.lower() and str.upper() on one character
LowerChar(c) == IF IsUpper(c) THEN Lowers[IndexOf(Uppers, c)] ELSE c
UpperChar(c) == IF IsLower(c) THEN Uppers[IndexOf(Lowers, c)] ELSE c

\* the code point of a character, which is what Python orders strings by
Ord(c) ==
    CASE IsUpper(c) -> 64 + IndexOf(Uppers, c)
      [] IsLower(c) -> 96 + IndexOf(Lowers, c)
      [] c \in Range(Digits) -> 47 + IndexOf(Digits, c)
      [] c = " " -> 32
      [] c = "-" -> 45
      [] c = "." -> 46
      [] c = "/" -> 47
      [] c = "_" -> 95

Lower(s) == [k \in 1..Len(s) |-> LowerChar(s[k])]

\* s.endswith(suffix)
EndsWith(s, suffix) ==
    /\ Len(s) >= Len(suffix)
    /\ SubSeq(s, Len(s) - Len(suffix) + 1, Len(s)) = suffix

StartsWith(s, prefix) ==
    /\ Len(s) >= Len(prefix)
    /\ SubSeq(s, 1, Len(prefix)) = prefix

\* s.replace(old, new): every non-overlapping occurrence, left to right
RECURSIVE Replace(_, _, _)
Replace(s, old, new) ==
    IF s = <<>> THEN <<>>
    ELSE IF StartsWith(s, old)
         THEN new \o Replace(SubSeq(s, Len(old) + 1, Len(s)), old, new)
         ELSE <<Head(s)>> \o Replace(Tail(s), old, new)

\* s.title(): a letter that follows a non-letter is upper-cased, every other
\* letter is lower-cased
Title(s) ==
    [k \in 1..Len(s) |->
        IF k = 1 \/ ~IsAlpha(s[k-1]) THEN UpperChar(s[k]) ELSE LowerChar(s[k])]

\* Python's < on strings: lexicographic by code point, a proper prefix first
RECURSIVE StrLess(_, _)
StrLess(a, b) ==
    IF b = <<>> THEN FALSE
    ELSE IF a = <<>> THEN TRUE
    ELSE IF Ord(Head(a)) # Ord(Head(b)) THEN Ord(Head(a)) < Ord(Head(b))
    ELSE StrLess(Tail(a), Tail(b))

\* list.sort() on a list of strings
RECURSIVE Insert(_, _)
Insert(x, sorted) ==
    IF sorted = <<>> THEN <<x>>
    ELSE IF StrLess(x, Head(sorted)) THEN <<x>> \o sorted
    ELSE <<Head(sorted)>> \o Insert(x, Tail(sorted))

RECURSIVE Sort(_)
Sort(list) == IF list = <<>> THEN <<>> ELSE Insert(Head(list), Sort(Tail(list)))

(***************************************************************************)
(* The wall clock and the timestamp of a file name.                        *)
(***************************************************************************)
ClockSamples ==
    << [Y |-> 2026, m |-> 11, d |-> 3, H |-> 9,  M |-> 5,  S |-> 7,  us |-> 4],
       [Y |-> 2025, m |-> 1,  d |-> 9, H |-> 23, M |-> 59, S |-> 58, us |-> 999999],
       [Y |-> 2026, m |-> 11, d |-> 3, H |-> 14, M |-> 30, S |-> 0,  us |-> 123456],
       [Y |-> 2024, m |-> 2,  d |-> 1, H |-> 0,  M |-> 0,  S |-> 59, us |-> 70080] >>

Clocks == {ClockSamples[k] : k \in 1..NumClocks}

\* the clock one second later (time.sleep(1) has returned); the samples stay
\* clear of the end of a month
Sleep1(t) ==
    LET s  == t.S + 1
        mi == t.M + (s \div 60)
        h  == t.H + (mi \div 60)
    IN [t EXCEPT !.S = s % 60, !.M = mi % 60, !.H = h % 24, !.d = t.d + (h \div 24)]

\* n as decimal digits, zero-padded to width w (strftime's %Y %m %d %H %M %S %f)
RECURSIVE Pad(_, _)
Pad(n, w) == IF w = 0 THEN <<>> ELSE Pad(n \div 10, w - 1) \o <<Digits[(n % 10) + 1]>>

\* datetime.strftime("%Y%m%d_%H%M%S_%f")
Strftime(t) ==
    Pad(t.Y, 4) \o Pad(t.m, 2) \o Pad(t.d, 2) \o <<"_">> \o
    Pad(t.H, 2) \o Pad(t.M, 2) \o Pad(t.S, 2) \o <<"_">> \o Pad(t.us, 6)

\* datetime.now().strftime("%Y%m%d_%H%M%S_%f")[:-3]
Timestamp(t) == LET s == Strftime(t) IN SubSeq(s, 1, Len(s) - 3)

(***************************************************************************)
(* Paths and the file system.  A path is the sequence of its components;   *)
(* the project root is one opaque component, a file or directory name is   *)
(* a string of characters.                                                 *)
(***************************************************************************)
\* get_project_root(): the parent of the directory holding the script
get_project_root == <<"<project_root>">>

DirName == <<"W","a","v","e","S","i","m","S","c","r","e","e","n","s","h","o","t","s">>
DotPng == <<".","p","n","g">>

\* os.path.join(a, b) for one component b: an absolute b replaces a
PathJoin(a, b) == IF b # <<>> /\ Head(b) = "/" THEN <<b>> ELSE Append(a, b)

\* os.path.basename(p)
Basename(p) == p[Len(p)]

\* the path create_screenshots_directory() returns
ScreenshotsDir == PathJoin(get_project_root, DirName)

\* the value standing for None (a falsy path, a falsy description)
None == <<>>
NoDescription == ""

\* names the output directory may hold before the program starts
FileUniverse ==
    { <<"a",".","p","n","g">>,
      <<"B",".","P","N","G">>,
      <<"b",".","p","n","g">>,
      <<"n","o","t","e","s",".","t","x","t">>,
      <<"p","n","g">>,
      <<"s","h","o","t","_","1",".","p","n","g",".","b","a","k">> }

SequenceUniverse == { <<"a",".","p","n","g">> }

(***************************************************************************)
(* Program data.                                                           *)
(***************************************************************************)
\* take_screenshot's default filename_prefix
DefaultPrefix == <<"w","a","v","e","_","s","i","m">>

\* guided_screenshot_sequence's fixed list of (prefix, description) pairs
sequence ==
    << << <<"i","n","i","t","i","a","l">>,
          "Initial state: Clean interface with wave simulation ready" >>,
       << <<"w","a","v","e","_","s","o","u","r","c","e","s">>,
          "Wave sources: Show multiple wave sources creating interference patterns" >>,
       << <<"w","a","v","e","_","p","r","o","p","a","g","a","t","i","o","n">>,
          "Wave propagation: Capture waves spreading across the simulation" >>,
       << <<"i","n","t","e","r","f","e","r","e","n","c","e">>,
          "Interference patterns: Show complex wave interactions and interference" >>,
       << <<"w","a","l","l","_","i","n","t","e","r","a","c","t","i","o","n">>,
          "Wall interactions: Demonstrate wave reflection and barriers" >>,
       << <<"c","o","n","t","r","o","l","s","_","p","a","n","e","l">>,
          "Controls panel: Show the UI with wave parameters and tools" >> >>

ScriptName == "screenshot_capture.py"

\* the command lines considered: no argument, each option, and unknown ones
Args ==
    { <<ScriptName>>,
      <<ScriptName, "--sequence">>,
      <<ScriptName, "--update-readme">>,
      <<ScriptName, "--help">>,
      <<ScriptName, "--bogus">>,
      <<ScriptName, "sequence">> }

(***************************************************************************)
(* State.                                                                  *)
(***************************************************************************)
VARIABLES
    argv,         \* sys.argv
    pc,           \* where the program is
    fs,           \* the output directory: [exists, files]
    fs0,          \* the output directory as the program found it
    now,          \* the wall clock
    prefix,       \* take_screenshot's filename_prefix
    description,  \* take_screenshot's description
    filepath,     \* take_screenshot's filepath
    outcome,      \* how the last subprocess.run call ended
    ret,          \* what the last take_screenshot call returned
    i,            \* guided_screenshot_sequence's loop counter
    screenshots,  \* guided_screenshot_sequence's list
    seqResult,    \* what guided_screenshot_sequence returned
    exc,          \* the exception that left main, "" when none did
    log           \* everything printed and every call made to the outside

vars == <<argv, pc, fs, fs0, now, prefix, description, filepath, outcome, ret,
          i, screenshots, seqResult, exc, log>>

\* the directories the program may find: absent, or present with a few files;
\* the guided sequence is run against a directory holding at most one earlier file
InitialDirs(a) ==
    LET many == IF a = <<ScriptName, "--sequence">>
                THEN {S \in SUBSET SequenceUniverse : Cardinality(S) <= MaxFiles}
                ELSE {S \in SUBSET FileUniverse : Cardinality(S) <= MaxFiles}
    IN  {[exists |-> FALSE, files |-> {}]} \cup
        {[exists |-> TRUE, files |-> F] : F \in many}

NoOutcome == [kind |-> "none", rc |-> 0, wrote |-> FALSE]

Init ==
    /\ argv \in Args
    /\ pc = "main"
    /\ fs \in InitialDirs(argv)
    /\ fs0 = fs
    /\ now \in Clocks
    /\ prefix = <<>>
    /\ description = NoDescription
    /\ filepath = None
    /\ outcome = NoOutcome
    /\ ret = None
    /\ i = 0
    /\ screenshots = <<>>
    /\ seqResult = <<>>
    /\ exc = ""
    /\ log = <<>>

(***************************************************************************)
(* create_screenshots_directory and take_screenshot.                       *)
(***************************************************************************)
\* a makedirs that is never made
makedirs_Skipped(f) == f

\* a makedirs that starts the directory afresh
makedirs_Recreate(f) == [exists |-> TRUE, files |-> {}]

\* os.makedirs(screenshots_dir, exist_ok=True)
makedirs(f) == IF f.exists THEN f ELSE [exists |-> TRUE, files |-> {}]

\* create_screenshots_directory(): the directory afterwards, the path returned
\* and the call made
create_screenshots_directory(f) ==
    [fs |-> makedirs(f), path |-> ScreenshotsDir,
     calls |-> << <<"makedirs", ScreenshotsDir>> >>]

\* filename = f"{filename_prefix}_{timestamp}.png"
Filename(pre, t) == pre \o <<"_">> \o Timestamp(t) \o DotPng

\* os.path.exists(filepath), for a path take_screenshot built
PathExists(f, path) ==
    /\ f.exists
    /\ SubSeq(path, 1, Len(path) - 1) = ScreenshotsDir
    /\ Basename(path) \in f.files

\* a success test that trusts the exit status alone
CaptureSucceeded_StatusOnly(rc, exists) == rc = 0

\* result.returncode == 0 and os.path.exists(filepath)
CaptureSucceeded(rc, exists) == rc = 0 /\ exists

\* where take_screenshot returns to
AfterTake == IF Len(argv) > 1 /\ argv[2] = "--sequence" THEN "seq_record" ELSE "done"

\* take_screenshot, up to the call of subprocess.run
take_screenshot ==
    /\ pc = "take"
    /\ LET c        == create_screenshots_directory(fs)
           filename == Filename(prefix, now)
       IN  /\ fs' = c.fs
           /\ filepath' = PathJoin(c.path, filename)
           /\ log' = log \o c.calls \o
                     << <<"print", "taking",
                          IF description # NoDescription THEN description ELSE "WaveSim">> >>
    /\ pc' = "run"
    /\ UNCHANGED <<argv, fs0, now, prefix, description, outcome, ret, i,
                   screenshots, seqResult, exc>>

\* subprocess.run(['screencapture', '-i', '-x', filepath], ...) is called
SubprocessRun ==
    /\ pc = "run"
    /\ log' = Append(log, <<"subprocess.run", <<"screencapture", "-i", "-x">>, filepath>>)
    /\ pc' = "tool"
    /\ UNCHANGED <<argv, fs, fs0, now, prefix, description, filepath, outcome, ret,
                   i, screenshots, seqResult, exc>>

\* the tool cannot be started: subprocess.run raises FileNotFoundError (an
\* OSError), which neither except clause of take_screenshot names
ToolNotLaunched ==
    /\ pc = "tool"
    /\ outcome' = [kind |-> "oserror", rc |-> 0, wrote |-> FALSE]
    /\ exc' = "FileNotFoundError"
    /\ pc' = "crashed"
    /\ UNCHANGED <<argv, fs, fs0, now, prefix, description, filepath, ret, i,
                   screenshots, seqResult, log>>

\* the operator interrupts the running tool: except KeyboardInterrupt
ToolInterrupted ==
    /\ pc = "tool"
    /\ outcome' = [kind |-> "interrupt", rc |-> 0, wrote |-> FALSE]
    /\ log' = log \o << <<"print", "cancelled">>, <<"return", None>> >>
    /\ ret' = None
    /\ pc' = AfterTake
    /\ UNCHANGED <<argv, fs, fs0, now, prefix, description, filepath, i,
                   screenshots, seqResult, exc>>

\* the tool exits with a status, having written the file or not
ToolExits ==
    /\ pc = "tool"
    /\ \E rc \in {0, 1}, wrote \in BOOLEAN :
        LET after == IF wrote
                     THEN [fs EXCEPT !.files = @ \cup {Basename(filepath)}]
                     ELSE fs
        IN  /\ outcome' = [kind |-> "exit", rc |-> rc, wrote |-> wrote]
            /\ fs' = after
            /\ IF CaptureSucceeded(rc, PathExists(after, filepath))
               THEN /\ log' = log \o << <<"print", "saved", Basename(filepath)>>,
                                        <<"return", filepath>> >>
                    /\ ret' = filepath
               ELSE /\ log' = log \o << <<"print", "failed">>, <<"return", None>> >>
                    /\ ret' = None
    /\ pc' = AfterTake
    /\ UNCHANGED <<argv, fs0, now, prefix, description, filepath, i,
                   screenshots, seqResult, exc>>

(***************************************************************************)
(* guided_screenshot_sequence.                                             *)
(***************************************************************************)
\* the banner, and screenshots = []
guided_screenshot_sequence ==
    /\ pc = "sequence"
    /\ log' = Append(log, <<"print", "banner">>)
    /\ screenshots' = <<>>
    /\ i' = 1
    /\ pc' = "seq_prompt"
    /\ UNCHANGED <<argv, fs, fs0, now, prefix, description, filepath, outcome, ret,
                   seqResult, exc>>

\* the head of one iteration: the announcement, and input(...) is called
SeqPrompt ==
    /\ pc = "seq_prompt"
    /\ log' = log \o << <<"print", "screenshot", i, Len(sequence), sequence[i][2]>>,
                        <<"input", i>> >>
    /\ pc' = "input"
    /\ UNCHANGED <<argv, fs, fs0, now, prefix, description, filepath, outcome, ret,
                   i, screenshots, seqResult, exc>>

\* the operator presses Enter: take_screenshot(prefix, description) is called
InputEnter ==
    /\ pc = "input"
    /\ log' = Append(log, <<"entered", i>>)
    /\ prefix' = sequence[i][1]
    /\ description' = sequence[i][2]
    /\ pc' = "take"
    /\ UNCHANGED <<argv, fs, fs0, now, filepath, outcome, ret, i, screenshots,
                   seqResult, exc>>

\* input() raises: Ctrl-C (KeyboardInterrupt) or a closed stdin (EOFError);
\* nothing in guided_screenshot_sequence or main catches either
InputRaises ==
    /\ pc = "input"
    /\ \E e \in {"KeyboardInterrupt", "EOFError"} : exc' = e
    /\ pc' = "crashed"
    /\ UNCHANGED <<argv, fs, fs0, now, prefix, description, filepath, outcome, ret,
                   i, screenshots, seqResult, log>>

\* an append that does not look at filepath
Collect_Always(list, pre, path, desc) == Append(list, <<pre, path, desc>>)

\* if filepath: screenshots.append((prefix, filepath, description))
Collect(list, pre, path, desc) ==
    IF path # None THEN Append(list, <<pre, path, desc>>) ELSE list

\* a pause after every item, the last one too
PauseAfter_Every(k) == k <= Len(sequence)

\* if i < len(sequence): the pause between two items
PauseAfter(k) == k < Len(sequence)

\* for i, (prefix, description) in enumerate(sequence, 1): after item k the
\* loop takes the next item, or ends once the list is exhausted
HasNext(k) == k < Len(sequence)
LoopCounter(k) == IF HasNext(k) THEN k + 1 ELSE k

\* a loop that gives up after a failed capture
LoopPc_BreakOnFailure(k) ==
    IF HasNext(k) /\ ret # None THEN "seq_prompt" ELSE "seq_summary"

LoopPc(k) == IF HasNext(k) THEN "seq_prompt" ELSE "seq_summary"

\* the rest of one iteration: the outcome is recorded, then the pause
SeqRecord ==
    /\ pc = "seq_record"
    /\ screenshots' = Collect(screenshots, prefix, ret, description)
    /\ LET noted == IF ret # None THEN <<>> ELSE << <<"print", "skipping">> >>
       IN  IF PauseAfter(i)
           THEN /\ log' = log \o << <<"recorded", i>> >> \o noted \o
                          << <<"print", "prepare">>, <<"sleep", i>> >>
                /\ pc' = "sleep"
                /\ i' = i
           ELSE /\ log' = log \o << <<"recorded", i>> >> \o noted
                /\ pc' = LoopPc(i)
                /\ i' = LoopCounter(i)
    /\ UNCHANGED <<argv, fs, fs0, now, prefix, description, filepath, outcome, ret,
                   seqResult, exc>>

\* time.sleep(1) returns and the loop goes on
SleepReturns ==
    /\ pc = "sleep"
    /\ now' = Sleep1(now)
    /\ i' = LoopCounter(i)
    /\ pc' = LoopPc(i)
    /\ UNCHANGED <<argv, fs, fs0, prefix, description, filepath, outcome, ret,
                   screenshots, seqResult, exc, log>>

\* Ctrl-C during time.sleep(1): nothing catches it
SleepInterrupted ==
    /\ pc = "sleep"
    /\ exc' = "KeyboardInterrupt"
    /\ pc' = "crashed"
    /\ UNCHANGED <<argv, fs, fs0, now, prefix, description, filepath, outcome, ret,
                   i, screenshots, seqResult, log>>

\* the lines of the final summary: one per entry of the list
SummaryLines(list) == [k \in 1..Len(list) |-> <<Basename(list[k][2]), list[k][3]>>]

\* after the loop: the closing lines, the summary, return screenshots
SeqSummary ==
    /\ pc = "seq_summary"
    /\ LET c == create_screenshots_directory(fs)
       IN  /\ fs' = c.fs
           /\ log' = log \o c.calls \o << <<"print", "complete", c.path>> >> \o
                     (IF screenshots # <<>>
                      THEN << <<"print", "captured", SummaryLines(screenshots)>> >>
                      ELSE <<>>)
    /\ seqResult' = screenshots
    /\ pc' = "done"
    /\ UNCHANGED <<argv, now, fs0, prefix, description, filepath, outcome, ret, i,
                   screenshots, exc>>

(***************************************************************************)
(* update_readme_with_screenshots.                                         *)
(***************************************************************************)
\* file.lower().endswith('.png')
IsPng(file) == EndsWith(Lower(file), DotPng)

\* the orders os.listdir may return the names of a directory in
Listings(files) ==
    {l \in [1..Cardinality(files) -> files] : Range(l) = files}

\* the names of a listing that pass the filter, in the listing's order
PngFiles(listing) == SelectSeq(listing, IsPng)

\* a listing left in the order os.listdir gave
SortFiles_Unsorted(list) == list

\* screenshot_files after .sort()
SortFiles(list) == Sort(list)

\* alt_text = f"Wave Simulation - {name_part}"
AltText(filename) ==
    <<"W","a","v","e"," ","S","i","m","u","l","a","t","i","o","n"," ","-"," ">> \o
    Title(Replace(Replace(filename, DotPng, <<>>), <<"_">>, <<" ">>))

\* f"![{alt_text}](WaveSimScreenshots/{filename})"
ImageLine(filename) == <<"image", AltText(filename), DirName \o <<"/">> \o filename>>

\* markdown: the heading, then one image line per file
Markdown(list) ==
    << <<"heading", "## Screenshots">> >> \o [k \in 1..Len(list) |-> ImageLine(list[k])]

update_readme_with_screenshots ==
    /\ pc = "update_readme"
    /\ LET c == create_screenshots_directory(fs)
       IN  /\ fs' = c.fs
           /\ \E listing \in Listings(c.fs.files) :
                LET screenshot_files == SortFiles(PngFiles(listing))
                IN  log' = log \o c.calls \o
                        << <<"exists", c.path>>, <<"listdir", c.path>> >> \o
                        (IF screenshot_files = <<>>
                         THEN << <<"print", "none_found">> >>
                         ELSE << <<"print", "generating", Len(screenshot_files)>>,
                                 <<"print", "markdown", Markdown(screenshot_files)>>,
                                 <<"print", "copy">> >>)
    /\ pc' = "done"
    /\ UNCHANGED <<argv, fs0, now, prefix, description, filepath, outcome, ret, i,
                   screenshots, seqResult, exc>>

(***************************************************************************)
(* main.                                                                   *)
(***************************************************************************)
\* a dispatcher whose unknown-option branch falls through to a capture
Dispatch_UnknownCaptures(a) ==
    IF Len(a) > 1
    THEN CASE a[2] = "--sequence" -> "sequence"
           [] a[2] = "--update-readme" -> "update_readme"
           [] a[2] = "--help" -> "help"
           [] OTHER -> "single"
    ELSE "single"

\* the branch main takes
Dispatch(a) ==
    IF Len(a) > 1
    THEN CASE a[2] = "--sequence" -> "sequence"
           [] a[2] = "--update-readme" -> "update_readme"
           [] a[2] = "--help" -> "help"
           [] OTHER -> "unknown"
    ELSE "single"

MainSequence ==
    /\ pc = "main"
    /\ Dispatch(argv) = "sequence"
    /\ pc' = "sequence"
    /\ UNCHANGED <<argv, fs, fs0, now, prefix, description, filepath, outcome, ret,
                   i, screenshots, seqResult, exc, log>>

MainUpdateReadme ==
    /\ pc = "main"
    /\ Dispatch(argv) = "update_readme"
    /\ pc' = "update_readme"
    /\ UNCHANGED <<argv, fs, fs0, now, prefix, description, filepath, outcome, ret,
                   i, screenshots, seqResult, exc, log>>

MainHelp ==
    /\ pc = "main"
    /\ Dispatch(argv) = "help"
    /\ log' = Append(log, <<"print", "usage">>)
    /\ pc' = "done"
    /\ UNCHANGED <<argv, fs, fs0, now, prefix, description, filepath, outcome, ret,
                   i, screenshots, seqResult, exc>>

MainUnknown ==
    /\ pc = "main"
    /\ Dispatch(argv) = "unknown"
    /\ log' = Append(log, <<"print", "unknown_option", argv[2]>>)
    /\ pc' = "done"
    /\ UNCHANGED <<argv, fs, fs0, now, prefix, description, filepath, outcome, ret,
                   i, screenshots, seqResult, exc>>

\* single screenshot mode: take_screenshot()
MainSingle ==
    /\ pc = "main"
    /\ Dispatch(argv) = "single"
    /\ prefix' = DefaultPrefix
    /\ description' = NoDescription
    /\ pc' = "take"
    /\ UNCHANGED <<argv, fs, fs0, now, filepath, outcome, ret, i, screenshots,
                   seqResult, exc, log>>

Next ==
    \/ MainSequence \/ MainUpdateReadme \/ MainHelp \/ MainUnknown \/ MainSingle
    \/ take_screenshot \/ SubprocessRun
    \/ ToolNotLaunched \/ ToolInterrupted \/ ToolExits
    \/ guided_screenshot_sequence \/ SeqPrompt \/ InputEnter \/ InputRaises
    \/ SeqRecord \/ SleepReturns \/ SleepInterrupted \/ SeqSummary
    \/ update_readme_with_screenshots

Spec == Init /\ [][Next]_vars

\* the process's exit status: 0 when main returned, Python's status for an
\* exception nobody caught otherwise
ExitCode == IF exc = "" THEN 0 ELSE IF exc = "KeyboardInterrupt" THEN 130 ELSE 1

(***************************************************************************)
(* What the claims speak of.                                               *)
(***************************************************************************)
Tagged(tag) == SelectSeq(log, LAMBDA e : e[1] = tag)
Printed(what) == SelectSeq(log, LAMBDA e : e[1] = "print" /\ e[2] = what)

\* the capture tool's invocations so far, and the paths they were given
Runs == Tagged("subprocess.run")
RunPath(k) == Runs[k][3]

\* what the take_screenshot calls so far returned
Returns == Tagged("return")

\* the command line, read off sys.argv itself
NoArgument == Len(argv) = 1
Option(o) == Len(argv) = 2 /\ argv[2] = o
SequenceMode == Option("--sequence")
ReadmeMode == Option("--update-readme")
HelpMode == Option("--help")
UnknownMode == Len(argv) = 2 /\ argv[2] \notin {"--sequence", "--update-readme", "--help"}

Finished == pc \in {"done", "crashed"}

\* YYYYMMDD_HHMMSS_mmm
IsTimestamp(s) ==
    /\ Len(s) = 19
    /\ \A k \in 1..19 :
          IF k \in {9, 16} THEN s[k] = "_"
          ELSE s[k] \in {"0", "1", "2", "3", "4", "5", "6", "7", "8", "9"}

\* name is <pre>_<timestamp>.png
IsCaptureName(name, pre) ==
    /\ Len(name) = Len(pre) + 1 + 19 + 4
    /\ SubSeq(name, 1, Len(pre)) = pre
    /\ name[Len(pre) + 1] = "_"
    /\ IsTimestamp(SubSeq(name, Len(pre) + 2, Len(pre) + 20))
    /\ SubSeq(name, Len(pre) + 21, Len(name)) = <<".", "p", "n", "g">>

\* name was built from the prefix pre: <pre>_ and 23 more characters
IsAttemptFor(name, pre) ==
    /\ Len(name) = Len(pre) + 1 + 19 + 4
    /\ SubSeq(name, 1, Len(pre) + 1) = pre \o <<"_">>

\* the number a string of digits spells
RECURSIVE Number(_)
Number(s) ==
    IF s = <<>> THEN 0
    ELSE 10 * Number(SubSeq(s, 1, Len(s) - 1)) + (IndexOf(Digits, s[Len(s)]) - 1)

\* the timestamp s spells the clock t, to the millisecond
SpellsClock(s, t) ==
    /\ Number(SubSeq(s, 1, 4)) = t.Y
    /\ Number(SubSeq(s, 5, 6)) = t.m
    /\ Number(SubSeq(s, 7, 8)) = t.d
    /\ Number(SubSeq(s, 10, 11)) = t.H
    /\ Number(SubSeq(s, 12, 13)) = t.M
    /\ Number(SubSeq(s, 14, 15)) = t.S
    /\ Number(SubSeq(s, 17, 19)) = t.us \div 1000

\* path lies directly inside the output directory
DirectlyInside(path) ==
    /\ Len(path) = 3
    /\ path[1] = "<project_root>"
    /\ path[2] = DirName

\* the last capture invocation ran to an exit status of 0 and left its file
LastCaptureGood ==
    /\ outcome.kind = "exit"
    /\ outcome.rc = 0
    /\ Basename(filepath) \in fs.files

\* take_screenshot has just handed its result to its caller
JustReturned == pc = "seq_record" \/ (NoArgument /\ pc = "done")

(***************************************************************************)
(* C1.  In --sequence mode, whatever mix of capture outcomes occurs        *)
(* (success, non-zero exit status, missing file, cancellation of the       *)
(* capture), the tool is attempted once per item of the fixed list, in      *)
(* list order, none skipped or repeated: the k-th attempt is for the k-th  *)
(* prefix, the loop stands at item i with i or i-1 attempts made, a run    *)
(* that returns has made all six, and a run is cut short only by a tool    *)
(* that could not be started or by Ctrl-C/EOF outside the capture call.    *)
(***************************************************************************)
C1_SixAttemptsInOrder ==
    SequenceMode =>
        LET runs == Runs
        IN  /\ Len(runs) <= Len(sequence)
            /\ \A k \in 1..Len(runs) :
                  /\ DirectlyInside(runs[k][3])
                  /\ IsAttemptFor(Basename(runs[k][3]), sequence[k][1])
            /\ pc \in {"seq_prompt", "input", "take", "run"} => Len(runs) = i - 1
            /\ pc \in {"tool", "seq_record", "sleep"} => Len(runs) = i
            /\ pc \in {"seq_summary", "done"} => Len(runs) = 6
            /\ pc = "crashed" =>
                  \/ outcome.kind = "oserror" /\ Len(runs) = i
                  \/ log[Len(log)][1] \in {"input", "sleep"}

\* a finished sequence in which four captures failed, the last by cancellation
C1_Witness ==
    /\ SequenceMode
    /\ pc = "done"
    /\ Len(Runs) = 6
    /\ Len(screenshots) = 2
    /\ outcome.kind = "interrupt"

RECURSIVE SuccessfulUpTo(_)
SuccessfulUpTo(k) ==
    IF k = 0 THEN <<>>
    ELSE SuccessfulUpTo(k - 1) \o
         (IF Returns[k][2] # <<>>
          THEN << <<sequence[k][1], Returns[k][2], sequence[k][2]>> >>
          ELSE <<>>)

(***************************************************************************)
(* C2.  When guided_screenshot_sequence returns, its list holds exactly    *)
(* one (prefix, path, description) entry per capture that returned a path, *)
(* none for a capture that returned None, in the order of the sequence;    *)
(* the 'Captured screenshots' lines are printed exactly when the list is   *)
(* not empty, one line per entry.  While the loop runs the list holds the  *)
(* successes among the items recorded so far.                              *)
(***************************************************************************)
C2_ListIsTheSuccesses ==
    /\ SequenceMode => screenshots = SuccessfulUpTo(Len(Tagged("recorded")))
    /\ (SequenceMode /\ pc = "done") =>
        /\ Len(Returns) = 6
        /\ seqResult = SuccessfulUpTo(6)
        /\ \A k \in 1..Len(seqResult) : seqResult[k][2] = RunPath(
              CHOOSE n \in 1..6 : sequence[n][1] = seqResult[k][1])
        /\ IF seqResult = <<>>
           THEN Printed("captured") = <<>>
           ELSE /\ Len(Printed("captured")) = 1
                /\ LET lines == Printed("captured")[1][3]
                   IN  /\ Len(lines) = Len(seqResult)
                       /\ \A k \in 1..Len(lines) :
                             /\ lines[k][1] = seqResult[k][2][3]
                             /\ lines[k][2] = seqResult[k][3]

\* a finished sequence whose first and last captures failed and third succeeded
C2_Witness ==
    /\ SequenceMode
    /\ pc = "done"
    /\ Len(seqResult) = 3
    /\ Returns[1][2] = <<>>
    /\ Returns[3][2] # <<>>
    /\ Returns[6][2] = <<>>

(***************************************************************************)
(* C3.  Whenever the capture invocation ends otherwise than with exit      *)
(* status 0 and the file present (non-zero status, status 0 with the file  *)
(* missing, the tool failing to run, Ctrl-C during the call),              *)
(* take_screenshot returns None and no exception leaves it.                *)
(***************************************************************************)
C3_FailureYieldsNone ==
    (outcome.kind # "none" /\ pc # "tool" /\ ~LastCaptureGood) =>
        /\ exc # "FileNotFoundError"
        /\ JustReturned => ret = None

(***************************************************************************)
(* C4.  No exception leaves main: in every mode and on every failure path  *)
(* main returns normally and the process ends with exit code 0.            *)
(***************************************************************************)
C4_NoExceptionLeavesMain ==
    /\ pc # "crashed"
    /\ exc = ""
    /\ Finished => ExitCode = 0

(***************************************************************************)
(* C5.  take_screenshot returns a path exactly when the tool exited with   *)
(* status 0 and the target file exists; the path is the one passed to the  *)
(* tool, lies directly inside the output directory, and is named           *)
(* <prefix>_<timestamp>.png for the caller's prefix, the timestamp being   *)
(* the clock's reading to the millisecond.                                 *)
(***************************************************************************)
C5_SuccessYieldsThePath ==
    JustReturned =>
        /\ (ret # <<>>) <=> LastCaptureGood
        /\ ret # <<>> =>
              /\ ret = RunPath(Len(Runs))
              /\ DirectlyInside(ret)
              /\ IsCaptureName(Basename(ret), prefix)
              /\ prefix = (IF NoArgument THEN <<"w","a","v","e","_","s","i","m">>
                           ELSE sequence[i][1])
              /\ SpellsClock(SubSeq(Basename(ret), Len(prefix) + 2, Len(prefix) + 20), now)

\* a lone capture that succeeded
C5_Witness ==
    /\ NoArgument
    /\ pc = "done"
    /\ LastCaptureGood
    /\ ret # <<>>

DidCapture == Runs # <<>> \/ Printed("taking") # <<>>
DidSequence == Printed("banner") # <<>> \/ Tagged("input") # <<>>
DidListing ==
    \/ Tagged("listdir") # <<>>
    \/ Printed("none_found") # <<>>
    \/ Printed("markdown") # <<>>
DidUsage == Printed("usage") # <<>>
DidUnknown == Printed("unknown_option") # <<>>

(***************************************************************************)
(* C6.  With zero or one argument main does one thing and one only: no     *)
(* argument, one capture invocation with the default prefix; --sequence,   *)
(* the guided sequence; --update-readme, the listing; --help, the usage    *)
(* text; anything else, the 'Unknown option' message.  The capture tool is *)
(* never invoked for --update-readme, --help or an unknown option.         *)
(***************************************************************************)
C6_ExactlyOneBehaviour ==
    /\ NoArgument =>
          /\ ~DidSequence /\ ~DidListing /\ ~DidUsage /\ ~DidUnknown
          /\ Len(Runs) <= 1
          /\ Finished => Len(Runs) = 1
          /\ \A k \in 1..Len(Runs) :
                IsAttemptFor(Basename(RunPath(k)), <<"w","a","v","e","_","s","i","m">>)
    /\ SequenceMode =>
          /\ ~DidListing /\ ~DidUsage /\ ~DidUnknown
          /\ Finished => Len(Printed("banner")) = 1
    /\ ReadmeMode =>
          /\ ~DidCapture /\ ~DidSequence /\ ~DidUsage /\ ~DidUnknown
          /\ Finished => Len(Tagged("listdir")) = 1
    /\ HelpMode =>
          /\ ~DidCapture /\ ~DidSequence /\ ~DidListing /\ ~DidUnknown
          /\ Finished => log = << <<"print", "usage">> >>
    /\ UnknownMode =>
          /\ ~DidCapture /\ ~DidSequence /\ ~DidListing /\ ~DidUsage
          /\ Finished => log = << <<"print", "unknown_option", argv[2]>> >>

\* an unknown option answered by the message and by nothing else
C6_Witness ==
    /\ UnknownMode
    /\ pc = "done"
    /\ DidUnknown
    /\ Runs = <<>>

\* the name ends in .png, in any mix of cases
HasPngExtension(name) ==
    /\ Len(name) >= 4
    /\ name[Len(name) - 3] = "."
    /\ name[Len(name) - 2] \in {"p", "P"}
    /\ name[Len(name) - 1] \in {"n", "N"}
    /\ name[Len(name)] \in {"g", "G"}

\* the file name an image line refers to
ReferredName(line) == SubSeq(line[3], Len(DirName) + 2, Len(line[3]))

C8_DirectoryCreatedOnceAndFirst ==
    /\ LET once  == create_screenshots_directory(fs)
           twice == create_screenshots_directory(once.fs)
       IN  /\ once.fs.exists
           /\ fs.exists => once.fs = fs
           /\ ~fs.exists => once.fs.files = {}
           /\ twice.fs = once.fs
           /\ twice.path = once.path
    /\ pc \in {"run", "tool"} =>
          /\ fs.exists
          /\ Tagged("makedirs") # <<>>
          /\ SubSeq(filepath, 1, Len(filepath) - 1)
                = create_screenshots_directory(fs).path
    /\ \A n \in 1..Len(log) :
          log[n][1] = "subprocess.run" =>
             \E m \in 1..(n - 1) :
                /\ log[m][1] = "makedirs"
                /\ \A j \in (m + 1)..(n - 1) : log[j][1] # "subprocess.run"
    /\ fs0.files \subseteq fs.files

\* the tool is running against a directory the program had to create
C8_Witness ==
    /\ pc = "tool"
    /\ ~fs0.exists
    /\ fs.exists
    /\ Len(Runs) = 1

\* the events of the sequence that the claim orders
IsStep(e) ==
    \/ e[1] \in {"input", "entered", "subprocess.run", "recorded", "sleep"}
    \/ e[1] = "print" /\ e[2] = "prepare"

Steps == SelectSeq(log, IsStep)

\* the n-th step of a sequence that runs to its end: six steps per item
StepKinds == <<"input", "entered", "subprocess.run", "recorded", "print", "sleep">>
ExpectedKind(n) == StepKinds[((n - 1) % 6) + 1]
ExpectedItem(n) == ((n - 1) \div 6) + 1

(***************************************************************************)
(* C9.  In --sequence mode the events of each item come in the order       *)
(* prompt (input is called), Enter, capture invocation, outcome recorded,  *)
(* and the 'Prepare for next screenshot' pause follows items 1 to 5 and    *)
(* never the sixth.                                                        *)
(***************************************************************************)
C9_PromptThenCaptureThenRecord ==
    SequenceMode =>
        LET steps == Steps
        IN  /\ Len(steps) <= 6 * 6 - 2
            /\ \A n \in 1..Len(steps) :
                  /\ steps[n][1] = ExpectedKind(n)
                  /\ steps[n][1] \in {"input", "entered", "recorded", "sleep"}
                        => steps[n][2] = ExpectedItem(n)
                  /\ steps[n][1] = "subprocess.run"
                        => IsAttemptFor(Basename(steps[n][3]),
                                        sequence[ExpectedItem(n)][1])
            /\ pc = "done" => Len(steps) = 6 * 6 - 2

\* a sequence run to its end: six rounds, five pauses
C9_Witness ==
    /\ SequenceMode
    /\ pc = "done"
    /\ Len(Tagged("entered")) = 6
    /\ Len(Tagged("sleep")) = 5
    /\ Len(Runs) = 6

TouchedFileSystem ==
    \E n \in 1..Len(log) :
        log[n][1] \in {"makedirs", "exists", "listdir", "subprocess.run"}

(***************************************************************************)
(* C10.  --update-readme, --help and an unknown option never add, remove   *)
(* or change a file of the output directory; --help and an unknown option  *)
(* do not touch the file system at all; --update-readme may create the     *)
(* directory when it is absent, then reports that no screenshots were      *)
(* found, and changes nothing else.                                        *)
(***************************************************************************)
C10_NoFileChanged ==
    /\ (ReadmeMode \/ HelpMode \/ UnknownMode) =>
          /\ fs.files = fs0.files
          /\ fs0.exists => fs = fs0
    /\ (HelpMode \/ UnknownMode) =>
          /\ fs = fs0
          /\ ~TouchedFileSystem
    /\ (ReadmeMode /\ pc = "done" /\ ~fs0.exists) =>
          /\ fs = [exists |-> TRUE, files |-> {}]
          /\ Len(Printed("none_found")) = 1

\* the listing run against a directory holding files, which it leaves alone
C10_Witness ==
    /\ ReadmeMode
    /\ pc = "done"
    /\ Cardinality(fs0.files) = 2
    /\ fs = fs0

====
